---- MODULE Spec2Model ----
(***************************************************************************)
(* Model of weasy/draw/helpers.py: the paint stage that walks a laid-out   *)
(* box tree and emits cairo operations (backgrounds, borders, text,        *)
(* replaced content).                                                      *)
(*                                                                         *)
(* The cairo context is modelled by its graphics state (clip, translation, *)
(* scale, dash, source, line width), its save stack, its current path and  *)
(* the log of the operations it received.  Every log entry records the     *)
(* function that emitted it, the top-level caller, the box it was emitted  *)
(* for and the source line of the emitting statement.                      *)
(*                                                                         *)
(* Lengths are integer pixels.  All box, viewport and image sizes are      *)
(* multiples of 4 and percentages are multiples of 25, so that the float   *)
(* division "/ 100." of absolute_background_position is exact.             *)
(***************************************************************************)
EXTENDS Integers, Sequences, FiniteSets, TLC

VARIABLES
    boxes,             \* the laid-out tree: box id -> box (read-only input)
    background_drawn,  \* box id -> the box's background_drawn attribute
    ctx,               \* the cairo context
    frames,            \* the call stack of the traversal, innermost last
    calls,             \* the top-level calls made so far, in order
    args,              \* input of absolute_background_position (SpecPos)
    result             \* output of absolute_background_position (SpecPos)

vars == <<boxes, background_drawn, ctx, frames, calls, args, result>>

\* Number of top-level calls (draw_page_background, draw_box) in one run.
MaxCalls == 2

\* Box identities.  NoBox stands for Python's None.
NoBox == "None"
PageBox == "page"

Max(a, b) == IF a >= b THEN a ELSE b
Min(a, b) == IF a <= b THEN a ELSE b

(***************************************************************************)
(* The cairo context.                                                      *)
(***************************************************************************)

\* The surface the top-level caller hands in: nothing saved, identity
\* transform, clip = the whole page surface.
Viewport == <<0, 0, 200, 120>>

InitialGs ==
    [clip |-> Viewport, traps |-> <<>>, tx |-> 0, ty |-> 0,
     scale |-> <<1, 1, 1, 1>>, dash |-> <<>>, source |-> "", line_width |-> 2]

InitialCtx == [ops |-> <<>>, gs |-> InitialGs, stack |-> <<>>, path |-> <<>>]

Who(f, caller, b, side) == [f |-> f, caller |-> caller, box |-> b, side |-> side]

Emit(c, who, line, op, a, obj) ==
    [c EXCEPT !.ops = Append(@, [f |-> who.f, caller |-> who.caller,
                                 box |-> who.box, side |-> who.side,
                                 line |-> line, op |-> op, args |-> a,
                                 obj |-> obj])]

save(c, who, line) ==
    [Emit(c, who, line, "save", <<>>, "") EXCEPT !.stack = Append(@, c.gs)]

restore(c, who, line) ==
    LET d == Emit(c, who, line, "restore", <<>>, "")
    IN IF c.stack = <<>> THEN d
       ELSE [d EXCEPT !.gs = c.stack[Len(c.stack)],
                      !.stack = SubSeq(c.stack, 1, Len(c.stack) - 1)]

\* "with context.stacked():" -- save on entry, restore on every exit of the
\* block (a return inside the block included).
stacked(c, who, line, Body(_)) == restore(Body(save(c, who, line)), who, line)

translate(c, who, line, x, y) ==
    [Emit(c, who, line, "translate", <<x, y>>, "")
        EXCEPT !.gs.tx = @ + x, !.gs.ty = @ + y]

scale(c, who, line, wn, wd, hn, hd) ==
    [Emit(c, who, line, "scale", <<wn, wd, hn, hd>>, "")
        EXCEPT !.gs.scale = <<@[1] * wn, @[2] * wd, @[3] * hn, @[4] * hd>>]

\* rectangle(x, y, w, h) adds a rectangle, in device coordinates, to the path.
rectangle(c, who, line, x, y, w, h) ==
    [Emit(c, who, line, "rectangle", <<x, y, w, h>>, "")
        EXCEPT !.path = Append(@, [kind |-> "rect",
                                   pts |-> <<x + c.gs.tx, y + c.gs.ty,
                                             x + c.gs.tx + w, y + c.gs.ty + h>>])]

path_points(c, who, line, op, pts) ==
    [Emit(c, who, line, op, pts, "")
        EXCEPT !.path = Append(@, [kind |-> op, pts |-> pts])]

Intersect(r, s) ==
    LET x1 == Max(r[1], s[1])
        y1 == Max(r[2], s[2])
        x2 == Min(r[3], s[3])
        y2 == Min(r[4], s[4])
    IN <<x1, y1, Max(x1, x2), Max(y1, y2)>>

RECURSIVE ClipPath(_, _)
ClipPath(gs, path) ==
    IF path = <<>> THEN gs
    ELSE LET e == Head(path)
             g == IF e.kind = "rect"
                  THEN [gs EXCEPT !.clip = Intersect(@, e.pts)]
                  ELSE IF e.kind = "trapezoid"
                  THEN [gs EXCEPT !.traps = Append(@, e.pts)]
                  ELSE gs
         IN ClipPath(g, Tail(path))

\* clip() intersects the clip region with the current path and clears the path.
clip(c, who, line) ==
    [Emit(c, who, line, "clip", <<>>, "")
        EXCEPT !.gs = ClipPath(c.gs, c.path), !.path = <<>>]

\* clip_extents(): the bounding box of the clip, in user coordinates.
clip_extents(c) ==
    <<c.gs.clip[1] - c.gs.tx, c.gs.clip[2] - c.gs.ty,
      c.gs.clip[3] - c.gs.tx, c.gs.clip[4] - c.gs.ty>>

set_source_colorvalue(c, who, line, color) ==
    [Emit(c, who, line, "set_source_colorvalue", <<color.alpha>>, color.name)
        EXCEPT !.gs.source = color.name]

set_source_pattern(c, who, line, uri) ==
    [Emit(c, who, line, "set_source", <<>>, uri) EXCEPT !.gs.source = uri]

paint(c, who, line) == Emit(c, who, line, "paint", <<>>, "")

set_dash(c, who, line, dashes) ==
    [Emit(c, who, line, "set_dash", dashes, "") EXCEPT !.gs.dash = dashes]

move_to(c, who, line, x, y) == path_points(c, who, line, "move_to", <<x, y>>)

line_to(c, who, line, x, y) == path_points(c, who, line, "line_to", <<x, y>>)

set_line_width(c, who, line, w) ==
    [Emit(c, who, line, "set_line_width", <<w>>, "") EXCEPT !.gs.line_width = w]

stroke(c, who, line) ==
    [Emit(c, who, line, "stroke", <<>>, "") EXCEPT !.path = <<>>]

(***************************************************************************)
(* Inputs: colours, images, styles, boxes.                                 *)
(***************************************************************************)

Color(name, alpha) == [name |-> name, alpha |-> alpha]

Transparent == Color("transparent", 0)

SUPPORTED_IMAGES == {"image/png", "image/gif", "image/jpeg", "image/bmp"}

\* What urllib answers for the URIs of the model: the MIME type of the
\* resource and the size of the decoded picture.
Resources ==
    [uri \in {"bg.png", "photo.jpg", "logo.svg", "page.html"} |->
        CASE uri = "bg.png"    -> [mime_type |-> "image/png",  width |-> 20, height |-> 12]
          [] uri = "photo.jpg" -> [mime_type |-> "image/jpeg", width |-> 40, height |-> 20]
          [] uri = "logo.svg"  -> [mime_type |-> "image/svg+xml", width |-> 20, height |-> 20]
          [] uri = "page.html" -> [mime_type |-> "text/html", width |-> 0, height |-> 0]]

NoSurface == [is_none |-> TRUE, width |-> 0, height |-> 0]

\* A faulty variant: every fetched resource is handed to the PNG decoder.
get_image_surface_from_uri_any(uri) ==
    [is_none |-> FALSE, width |-> Resources[uri].width,
     height |-> Resources[uri].height]

get_image_surface_from_uri(uri) ==
    LET info == Resources[uri]
    IN IF info.mime_type \in SUPPORTED_IMAGES
       THEN [is_none |-> FALSE, width |-> info.width, height |-> info.height]
       ELSE NoSurface

\* background-position values: a keyword, a percentage or a length in pixels.
Keyword(name) == [kind |-> "keyword", name |-> name, value |-> 0]
Percentage(p) == [kind |-> "percentage", name |-> "", value |-> p]
Length(px) == [kind |-> "length", name |-> "", value |-> px]

BaseStyle ==
    [background_color |-> Transparent,
     background_image |-> "none",
     background_position |-> <<Percentage(0), Percentage(0)>>,
     background_repeat |-> "repeat",
     background_attachment |-> "scroll",
     border_top_color |-> Transparent, border_right_color |-> Transparent,
     border_bottom_color |-> Transparent, border_left_color |-> Transparent,
     border_top_style |-> "none", border_right_style |-> "none",
     border_bottom_style |-> "none", border_left_style |-> "none",
     color |-> Color("black", 1),
     font_size |-> 20,
     text_decoration |-> <<>>]

BaseBox ==
    [is_text |-> FALSE, is_replaced |-> FALSE, is_parent |-> FALSE,
     tag |-> "", children |-> <<>>, outside_list_marker |-> NoBox,
     root_box |-> NoBox,
     position_x |-> 0, position_y |-> 0, margin_left |-> 0, margin_top |-> 0,
     width |-> 0, height |-> 0,
     padding_left |-> 0, padding_right |-> 0,
     padding_top |-> 0, padding_bottom |-> 0,
     border_top_width |-> 0, border_right_width |-> 0,
     border_bottom_width |-> 0, border_left_width |-> 0,
     baseline |-> 0, intrinsic_width |-> 4, intrinsic_height |-> 4,
     style |-> BaseStyle]

\* str.lower() on the element tags of the model.
Lower(tag) ==
    CASE tag \in {"html", "HTML", "Html"} -> "html"
      [] tag \in {"body", "BODY", "Body"} -> "body"
      [] OTHER -> tag

\* Box geometry (formatting_structure.boxes).
border_box_x(box) == box.position_x + box.margin_left
border_box_y(box) == box.position_y + box.margin_top
padding_box_x(box) == box.position_x + box.margin_left + box.border_left_width
padding_box_y(box) == box.position_y + box.margin_top + box.border_top_width
padding_width(box) == box.width + box.padding_left + box.padding_right
padding_height(box) == box.height + box.padding_top + box.padding_bottom
border_width(box) ==
    padding_width(box) + box.border_left_width + box.border_right_width
border_height(box) ==
    padding_height(box) + box.border_top_width + box.border_bottom_width

(***************************************************************************)
(* Backgrounds.                                                            *)
(***************************************************************************)

has_background(box) ==
    box.style.background_color.alpha > 0 \/ box.style.background_image # "none"

\* get_percentage_value (css.values): the percentage, or None.
IsPercentage(value) == value.kind = "percentage"

kw_to_percentage(name) ==
    CASE name \in {"top", "left"} -> 0
      [] name = "center" -> 50
      [] name \in {"bottom", "right"} -> 100

\* One iteration of the loop of lines 230-236.
AxisOffset(value, bg_dimension, image_dimension) ==
    IF value.kind = "keyword"
    THEN ((bg_dimension - image_dimension) * kw_to_percentage(value.name)) \div 100
    ELSE IF IsPercentage(value)
    THEN ((bg_dimension - image_dimension) * value.value) \div 100
    ELSE value.value

\* A faulty variant: the pair is swapped when the second value is top or bottom.
absolute_background_position_vswap(css_values, bg_dimensions, image_dimensions) ==
    LET values == IF Len(css_values) = 1
                  THEN Append(css_values, Keyword("center"))
                  ELSE css_values
        ordered == IF values[2].name \in {"top", "bottom"}
                      \/ values[1].name \in {"left", "right"}
                   THEN <<values[2], values[1]>>
                   ELSE values
    IN <<AxisOffset(ordered[1], bg_dimensions[1], image_dimensions[1]),
         AxisOffset(ordered[2], bg_dimensions[2], image_dimensions[2])>>

absolute_background_position(css_values, bg_dimensions, image_dimensions) ==
    LET values == IF Len(css_values) = 1
                  THEN Append(css_values, Keyword("center"))
                  ELSE css_values
        ordered == IF values[2].name \in {"left", "right"}
                      \/ values[1].name \in {"top", "bottom"}
                   THEN <<values[2], values[1]>>
                   ELSE values
    IN <<AxisOffset(ordered[1], bg_dimensions[1], image_dimensions[1]),
         AxisOffset(ordered[2], bg_dimensions[2], image_dimensions[2])>>

\* A faulty variant: the two axes of the repeat policy are exchanged.
draw_background_image_swapped(c, who, box, surface) ==
    LET bg_repeat == box.style.background_repeat
        ext == clip_extents(c)
        limit_y == bg_repeat \in {"no-repeat", "repeat-y"}
        limit_x == bg_repeat \in {"no-repeat", "repeat-x"}
        clip_x1 == IF limit_x THEN 0 ELSE ext[1]
        clip_y1 == IF limit_y THEN 0 ELSE ext[2]
        clip_width == IF limit_x THEN surface.width ELSE ext[3] - ext[1]
        clip_height == IF limit_y THEN surface.height ELSE ext[4] - ext[2]
        c1 == IF bg_repeat # "repeat"
              THEN clip(rectangle(c, who, 198, clip_x1, clip_y1,
                                  clip_width, clip_height), who, 199)
              ELSE c
        c2 == set_source_pattern(c1, who, 203, box.style.background_image)
    IN paint(c2, who, 204)

\* Lines 180-204: the repeat policy and the pattern fill.
draw_background_image(c, who, box, surface) ==
    LET bg_repeat == box.style.background_repeat
        ext == clip_extents(c)
        limit_y == bg_repeat \in {"no-repeat", "repeat-x"}
        limit_x == bg_repeat \in {"no-repeat", "repeat-y"}
        clip_x1 == IF limit_x THEN 0 ELSE ext[1]
        clip_y1 == IF limit_y THEN 0 ELSE ext[2]
        clip_width == IF limit_x THEN surface.width ELSE ext[3] - ext[1]
        clip_height == IF limit_y THEN surface.height ELSE ext[4] - ext[2]
        c1 == IF bg_repeat # "repeat"
              THEN clip(rectangle(c, who, 198, clip_x1, clip_y1,
                                  clip_width, clip_height), who, 199)
              ELSE c
        c2 == set_source_pattern(c1, who, 203, box.style.background_image)
    IN paint(c2, who, 204)

\* A faulty variant: the clip extents of a fixed background are read after the
\* border-box clip is installed.
draw_background_body_lateextents(c, who, box, clip_it) ==
    LET bg_x == border_box_x(box)
        bg_y == border_box_y(box)
        bg_attachement == box.style.background_attachment
        c1 == IF clip_it
              THEN clip(rectangle(c, who, 146, bg_x, bg_y, border_width(box),
                                  border_height(box)), who, 147)
              ELSE c
        ext == clip_extents(c1)
        bg_color == box.style.background_color
        c2 == IF bg_color.alpha > 0
              THEN paint(set_source_colorvalue(c1, who, 152, bg_color), who, 153)
              ELSE c1
        c3 == IF bg_attachement = "scroll"
              THEN translate(c2, who, 157, bg_x, bg_y)
              ELSE c2
        bg_width == IF bg_attachement = "scroll" THEN border_width(box)
                    ELSE ext[3] - ext[1]
        bg_height == IF bg_attachement = "scroll" THEN border_height(box)
                     ELSE ext[4] - ext[2]
        bg_image == box.style.background_image
        surface == get_image_surface_from_uri(bg_image)
        pos == absolute_background_position(
                   box.style.background_position, <<bg_width, bg_height>>,
                   <<surface.width, surface.height>>)
    IN IF bg_image = "none" THEN c3
       ELSE IF surface.is_none THEN c3
       ELSE draw_background_image(
                translate(c3, who, 178, pos[1], pos[2]), who, box, surface)

\* Lines 133-204: the body of the "with context.stacked()" block.
draw_background_body(c, who, box, clip_it) ==
    LET bg_x == border_box_x(box)
        bg_y == border_box_y(box)
        bg_attachement == box.style.background_attachment
        ext == clip_extents(c)
        page_width == ext[3] - ext[1]
        page_height == ext[4] - ext[2]
        c1 == IF clip_it
              THEN clip(rectangle(c, who, 146, bg_x, bg_y, border_width(box),
                                  border_height(box)), who, 147)
              ELSE c
        bg_color == box.style.background_color
        c2 == IF bg_color.alpha > 0
              THEN paint(set_source_colorvalue(c1, who, 152, bg_color), who, 153)
              ELSE c1
        c3 == IF bg_attachement = "scroll"
              THEN translate(c2, who, 157, bg_x, bg_y)
              ELSE c2
        bg_width == IF bg_attachement = "scroll" THEN border_width(box)
                    ELSE page_width
        bg_height == IF bg_attachement = "scroll" THEN border_height(box)
                     ELSE page_height
        bg_image == box.style.background_image
        surface == get_image_surface_from_uri(bg_image)
        pos == absolute_background_position(
                   box.style.background_position, <<bg_width, bg_height>>,
                   <<surface.width, surface.height>>)
    IN IF bg_image = "none" THEN c3
       ELSE IF surface.is_none THEN c3
       ELSE draw_background_image(
                translate(c3, who, 178, pos[1], pos[2]), who, box, surface)

\* The world a paint function works on: the context and the painted flags.
World(c, drawn) == [c |-> c, drawn |-> drawn]

\* A faulty variant: the background_drawn attribute is never set.
draw_background_noflag(w, b, clip_it, caller) ==
    LET who == Who("draw_background", caller, b, "")
        w0 == [w EXCEPT !.c = Emit(@, who, 122, "call", <<>>, "")]
    IN IF ~has_background(boxes[b]) THEN w0
       ELSE [w0 EXCEPT !.c = stacked(@, who, 132,
                LAMBDA d : draw_background_body(d, who, boxes[b], clip_it))]

\* A faulty variant: the state is saved, but the two early returns of the image
\* part leave without restoring it.
draw_background_leak(w, b, clip_it, caller) ==
    LET who == Who("draw_background", caller, b, "")
        box == boxes[b]
        w0 == [w EXCEPT !.c = Emit(@, who, 122, "call", <<>>, "")]
        early == box.style.background_image = "none"
                 \/ get_image_surface_from_uri(box.style.background_image).is_none
    IN IF w.drawn[b] THEN w0
       ELSE LET w1 == [w0 EXCEPT !.drawn[b] = TRUE]
            IN IF ~has_background(box) THEN w1
               ELSE IF early
               THEN [w1 EXCEPT !.c = draw_background_body(
                                         save(@, who, 132), who, box, clip_it)]
               ELSE [w1 EXCEPT !.c = stacked(@, who, 132,
                        LAMBDA d : draw_background_body(d, who, box, clip_it))]

draw_background(w, b, clip_it, caller) ==
    LET who == Who("draw_background", caller, b, "")
        box == boxes[b]
        w0 == [w EXCEPT !.c = Emit(@, who, 122, "call", <<>>, "")]
    IN IF w.drawn[b] THEN w0
       ELSE LET w1 == [w0 EXCEPT !.drawn[b] = TRUE]
            IN IF ~has_background(box) THEN w1
               ELSE [w1 EXCEPT !.c = stacked(@, who, 132,
                        LAMBDA d : draw_background_body(d, who, box, clip_it))]


(***************************************************************************)
(* Borders.                                                                *)
(***************************************************************************)

Sides == <<"top", "right", "bottom", "left">>

border_side_width(box, side) ==
    CASE side = "top" -> box.border_top_width
      [] side = "right" -> box.border_right_width
      [] side = "bottom" -> box.border_bottom_width
      [] side = "left" -> box.border_left_width

border_side_color(box, side) ==
    CASE side = "top" -> box.style.border_top_color
      [] side = "right" -> box.style.border_right_color
      [] side = "bottom" -> box.style.border_bottom_color
      [] side = "left" -> box.style.border_left_color

border_side_style(box, side) ==
    CASE side = "top" -> box.style.border_top_style
      [] side = "right" -> box.style.border_right_style
      [] side = "bottom" -> box.style.border_bottom_style
      [] side = "left" -> box.style.border_left_style

get_edge(x, y, width, height) ==
    << <<x, y>>, <<x + width, y>>, <<x + width, y + height>>, <<x, y + height>> >>

get_border_area(box) ==
    LET x == box.position_x + box.margin_left
        y == box.position_y + box.margin_top
    IN << get_edge(x, y, border_width(box), border_height(box)),
          get_edge(x + box.border_left_width, y + box.border_top_width,
                   padding_width(box), padding_height(box)) >>

get_lines(rectangle_points) ==
    [i \in 1..4 |-> <<rectangle_points[i], rectangle_points[(i % 4) + 1]>>]

\* Trapezoid(line1, line2), as the eight coordinates of its two lines.
Trapezoid(line1, line2) ==
    <<line1[1][1], line1[1][2], line1[2][1], line1[2][2],
      line2[1][1], line2[1][2], line2[2][1], line2[2][2]>>

get_trapezoids(box) ==
    LET border_lines == get_lines(get_border_area(box)[1])
        padding_lines == get_lines(get_border_area(box)[2])
    IN [i \in 1..4 |-> Trapezoid(border_lines[i], padding_lines[i])]

\* Lines 287-302: the body of the "with context.stacked()" block.
draw_border_side_body(c, who, width, color, style, trapezoid) ==
    LET c1 == IF style \notin {"dotted", "dashed"}
              THEN clip(path_points(c, who, 290, "trapezoid", trapezoid),
                        who, 291)
              ELSE IF style = "dotted"
              THEN set_dash(c, who, 294, <<width>>)
              ELSE set_dash(c, who, 297, <<4 * width>>)
        c2 == path_points(c1, who, 299, "middle_line", trapezoid)
        c3 == set_source_colorvalue(c2, who, 300, color)
        c4 == set_line_width(c3, who, 301, width)
    IN stroke(c4, who, 302)

\* A faulty variant: the side is painted whenever its width is nonzero,
\* whatever the alpha of its colour.
draw_border_side_anyalpha(c, b, caller, side, trapezoid) ==
    LET box == boxes[b]
        who == Who("draw_border_side", caller, b, side)
        width == border_side_width(box, side)
    IN IF width = 0 THEN c
       ELSE stacked(c, who, 287,
                LAMBDA d : draw_border_side_body(d, who, width,
                               border_side_color(box, side),
                               border_side_style(box, side), trapezoid))

draw_border_side(c, b, caller, side, trapezoid) ==
    LET box == boxes[b]
        who == Who("draw_border_side", caller, b, side)
        width == border_side_width(box, side)
        color == border_side_color(box, side)
        style == border_side_style(box, side)
    IN IF width = 0 THEN c
       ELSE IF color.alpha > 0
       THEN stacked(c, who, 287,
                LAMBDA d : draw_border_side_body(d, who, width, color, style,
                                                 trapezoid))
       ELSE c

\* Lines 304-307: the loop over zip(sides, trapezoids), from index i on.
RECURSIVE draw_border_sides(_, _, _, _)
draw_border_sides(c, b, caller, i) ==
    IF i > Len(Sides) THEN c
    ELSE draw_border_sides(
             draw_border_side(c, b, caller, Sides[i], get_trapezoids(boxes[b])[i]),
             b, caller, i + 1)

draw_border(c, b, caller) ==
    LET box == boxes[b]
        c0 == Emit(c, Who("draw_border", caller, b, ""), 239, "call", <<>>, "")
    IN IF \A i \in 1..Len(Sides) : border_side_width(box, Sides[i]) = 0
       THEN c0
       ELSE draw_border_sides(c0, b, caller, 1)

(***************************************************************************)
(* Replaced content and text.                                              *)
(***************************************************************************)

\* Lines 315-321: the body of the "with context.stacked()" block.
draw_replacedbox_body(c, who, box) ==
    LET c1 == translate(c, who, 315, padding_box_x(box), padding_box_y(box))
        c2 == clip(rectangle(c1, who, 316, 0, 0, box.width, box.height),
                   who, 317)
        c3 == scale(c2, who, 320, box.width, box.intrinsic_width,
                    box.height, box.intrinsic_height)
    IN Emit(c3, who, 321, "replacement.draw", <<>>, "")

draw_replacedbox(c, b, caller) ==
    LET who == Who("draw_replacedbox", caller, b, "")
        c0 == Emit(c, who, 310, "call", <<>>, "")
    IN stacked(c0, who, 314, LAMBDA d : draw_replacedbox_body(d, who, boxes[b]))

\* Lines 367-374: the body of the "with context.stacked()" block.
draw_text_decoration_body(c, who, position_y, textbox) ==
    LET c1 == set_source_colorvalue(c, who, 368, textbox.style.color)
        c2 == set_line_width(c1, who, 369, 1)
        c3 == move_to(c2, who, 370, textbox.position_x, position_y)
        c4 == line_to(c3, who, 373, textbox.position_x + textbox.width,
                      position_y)
    IN stroke(c4, who, 374)

draw_text_decoration(c, who, position_y, textbox) ==
    stacked(c, who, 366,
            LAMBDA d : draw_text_decoration_body(d, who, position_y, textbox))

\* font_size * 0.15; the font sizes of the model are multiples of 20.
FontOffset(font_size) == (font_size * 15) \div 100

draw_overline(c, who, textbox) ==
    draw_text_decoration(c, who,
        textbox.baseline + textbox.position_y
            - FontOffset(textbox.style.font_size), textbox)

draw_underline(c, who, textbox) ==
    draw_text_decoration(c, who,
        textbox.baseline + textbox.position_y
            + FontOffset(textbox.style.font_size), textbox)

draw_line_through(c, who, textbox) ==
    draw_text_decoration(c, who,
        textbox.position_y + (textbox.height \div 2), textbox)

\* Lines 333-340: the loop over text_decoration, from index i on.
RECURSIVE draw_text_decorations(_, _, _, _)
draw_text_decorations(c, who, textbox, i) ==
    LET values == textbox.style.text_decoration
    IN IF i > Len(values) THEN c
       ELSE LET value == values[i]
                c1 == CASE value = "overline" -> draw_overline(c, who, textbox)
                        [] value = "underline" -> draw_underline(c, who, textbox)
                        [] value = "line-through" ->
                               draw_line_through(c, who, textbox)
                        [] OTHER -> c
            IN draw_text_decorations(c1, who, textbox, i + 1)

draw_text(c, b, caller) ==
    LET textbox == boxes[b]
        who == Who("draw_text", caller, b, "")
        c0 == Emit(c, who, 324, "call", <<>>, "")
    IN IF textbox.style.font_size = 0 THEN c0
       ELSE LET c1 == move_to(c0, who, 331, textbox.position_x,
                              textbox.position_y + textbox.baseline)
                c2 == Emit(c1, who, 332, "show_line", <<>>, "")
            IN draw_text_decorations(c2, who, textbox, 1)


(***************************************************************************)
(* The page of the model.                                                  *)
(*                                                                         *)
(*   page -- root -+- a -+- (outside list marker) m : TextBox              *)
(*                 |     +- t   : TextBox                                  *)
(*                 |     +- img : ReplacedBox                              *)
(*                 +- b : plain Box                                        *)
(***************************************************************************)

BoxIds == {"page", "root", "a", "b", "t", "img", "m"}

Background(color, image, repeat, attachment) ==
    [color |-> color, image |-> image, repeat |-> repeat,
     attachment |-> attachment]

NoBackground == Background(Transparent, "none", "repeat", "scroll")

Plain(name) == Background(Color(name, 1), "none", "repeat", "scroll")

Repeats == {"repeat", "repeat-x", "repeat-y", "no-repeat"}

Attachments == {"scroll", "fixed"}

\* The backgrounds box a may have.
RichBackgrounds ==
    {Background(col, "none", "repeat", "scroll") :
        col \in {Transparent, Color("red", 1)}}
    \cup {Background(Color("red", 1), "none", "repeat", "fixed"),
          Background(Transparent, "logo.svg", "no-repeat", "scroll"),
          Background(Color("red", 1), "page.html", "repeat", "fixed"),
          Background(Color("red", 1), "photo.jpg", "repeat", "scroll")}
    \cup {Background(Transparent, "bg.png", rep, att) :
            rep \in Repeats, att \in Attachments}

WithBackground(style, bg) ==
    [style EXCEPT !.background_color = bg.color,
                  !.background_image = bg.image,
                  !.background_repeat = bg.repeat,
                  !.background_attachment = bg.attachment]

Tree(root_tag, a_tag, b_tag, page_bg, root_bg, a_bg) ==
    [id \in BoxIds |->
        CASE id = "page" ->
               [BaseBox EXCEPT !.root_box = "root", !.width = 200, !.height = 120,
                    !.style = WithBackground(BaseStyle, page_bg)]
          [] id = "root" ->
               [BaseBox EXCEPT !.is_parent = TRUE, !.tag = root_tag,
                    !.children = <<"a", "b">>, !.width = 200, !.height = 120,
                    !.style = WithBackground(BaseStyle, root_bg)]
          [] id = "a" ->
               [BaseBox EXCEPT !.is_parent = TRUE, !.tag = a_tag,
                    !.children = <<"t", "img">>, !.outside_list_marker = "m",
                    !.position_x = 20, !.position_y = 8,
                    !.margin_left = 4, !.margin_top = 4,
                    !.width = 80, !.height = 40,
                    !.border_top_width = 4, !.border_bottom_width = 4,
                    !.border_left_width = 4,
                    !.style = [WithBackground(BaseStyle, a_bg) EXCEPT
                        !.background_position =
                            <<Percentage(25), Keyword("bottom")>>,
                        !.border_top_color = Color("navy", 1),
                        !.border_top_style = "solid",
                        !.border_bottom_color = Color("navy", 1),
                        !.border_bottom_style = "dashed",
                        !.border_left_color = Transparent,
                        !.border_left_style = "solid"]]
          [] id = "b" ->
               [BaseBox EXCEPT !.tag = b_tag,
                    !.position_x = 20, !.position_y = 64,
                    !.width = 80, !.height = 40,
                    !.style = WithBackground(BaseStyle, Plain("green"))]
          [] id = "t" ->
               [BaseBox EXCEPT !.is_text = TRUE, !.tag = a_tag,
                    !.position_x = 28, !.position_y = 16,
                    !.width = 40, !.height = 20, !.baseline = 16,
                    !.style.text_decoration = <<"underline", "line-through">>]
          [] id = "img" ->
               [BaseBox EXCEPT !.is_replaced = TRUE, !.tag = "img",
                    !.position_x = 72, !.position_y = 16,
                    !.width = 20, !.height = 12,
                    !.intrinsic_width = 40, !.intrinsic_height = 20,
                    !.style = WithBackground(BaseStyle, Plain("yellow"))]
          [] id = "m" ->
               [BaseBox EXCEPT !.is_text = TRUE, !.tag = a_tag,
                    !.position_x = 8, !.position_y = 16,
                    !.width = 12, !.height = 20, !.baseline = 16,
                    !.style.font_size = 0]]

Trees ==
    {Tree(root_tag, a_tag, b_tag, page_bg, root_bg, a_bg) :
        root_tag \in {"html", "HTML", "div"},
        a_tag \in {"body", "div"},
        b_tag \in {"Body", "div"},
        page_bg \in {NoBackground, Plain("white")},
        root_bg \in {NoBackground, Plain("silver")},
        a_bg \in RichBackgrounds}

(***************************************************************************)
(* The traversal.                                                          *)
(***************************************************************************)

Frame(fn, b, pc, i) == [fn |-> fn, box |-> b, pc |-> pc, i |-> i]

Top == frames[Len(frames)]

Pop == SubSeq(frames, 1, Len(frames) - 1)

Goto(pc, i) == [frames EXCEPT ![Len(frames)].pc = pc, ![Len(frames)].i = i]

Running(fn, pc) == frames # <<>> /\ Top.fn = fn /\ Top.pc = pc

Apply(w) == ctx' = w.c /\ background_drawn' = w.drawn

Now == World(ctx, background_drawn)

DrawBoxWho(b) == Who("draw_box", "draw_box", b, "")

PageWho == Who("draw_page_background", "draw_page_background", PageBox, "")

Init ==
    /\ boxes \in Trees
    /\ background_drawn = [id \in BoxIds |-> FALSE]
    /\ ctx = InitialCtx
    /\ frames = <<>>
    /\ calls = <<>>
    /\ args = <<>>
    /\ result = <<>>

\* The caller starts draw_page_background(context, page).
CallDrawPageBackground ==
    /\ frames = <<>>
    /\ Len(calls) < MaxCalls
    /\ calls' = Append(calls, "draw_page_background")
    /\ frames' = <<Frame("draw_page_background", PageBox, "page", 1)>>
    /\ ctx' = Emit(ctx, PageWho, 95, "call", <<>>, "")
    /\ UNCHANGED <<boxes, background_drawn, args, result>>

\* Line 112.
PageBackgroundPage ==
    /\ Running("draw_page_background", "page")
    /\ Apply(draw_background(Now, PageBox, FALSE, "draw_page_background"))
    /\ frames' = Goto("root", 1)
    /\ UNCHANGED <<boxes, calls, args, result>>

\* A faulty variant: the root's background is painted with the default
\* clip=True.
PageBackgroundRoot_clipped ==
    /\ Running("draw_page_background", "root")
    /\ LET root == boxes[PageBox].root_box
       IN IF has_background(boxes[root])
          THEN /\ Apply(draw_background(Now, root, TRUE,
                                        "draw_page_background"))
               /\ frames' = Pop
          ELSE IF Lower(boxes[root].tag) = "html"
          THEN /\ frames' = Goto("children", 1)
               /\ UNCHANGED <<ctx, background_drawn>>
          ELSE /\ frames' = Pop
               /\ UNCHANGED <<ctx, background_drawn>>
    /\ UNCHANGED <<boxes, calls, args, result>>

\* Lines 113-115.
PageBackgroundRoot ==
    /\ Running("draw_page_background", "root")
    /\ LET root == boxes[PageBox].root_box
       IN IF has_background(boxes[root])
          THEN /\ Apply(draw_background(Now, root, FALSE,
                                        "draw_page_background"))
               /\ frames' = Pop
          ELSE IF Lower(boxes[root].tag) = "html"
          THEN /\ frames' = Goto("children", 1)
               /\ UNCHANGED <<ctx, background_drawn>>
          ELSE /\ frames' = Pop
               /\ UNCHANGED <<ctx, background_drawn>>
    /\ UNCHANGED <<boxes, calls, args, result>>

\* Lines 116-119: one iteration of the loop over the root's children.
PageBackgroundChild ==
    /\ Running("draw_page_background", "children")
    /\ LET children == boxes[boxes[PageBox].root_box].children
           i == Top.i
       IN IF i > Len(children)
          THEN /\ frames' = Pop
               /\ UNCHANGED <<ctx, background_drawn>>
          ELSE /\ frames' = Goto("children", i + 1)
               /\ IF Lower(boxes[children[i]].tag) = "body"
                  THEN Apply(draw_background(Now, children[i], FALSE,
                                             "draw_page_background"))
                  ELSE UNCHANGED <<ctx, background_drawn>>
    /\ UNCHANGED <<boxes, calls, args, result>>

\* The caller starts draw_box(context, page.root_box).
CallDrawBox ==
    /\ frames = <<>>
    /\ Len(calls) < MaxCalls
    /\ calls' = Append(calls, "draw_box")
    /\ LET root == boxes[PageBox].root_box
       IN /\ frames' = <<Frame("draw_box", root, "background", 1)>>
          /\ ctx' = Emit(ctx, DrawBoxWho(root), 66, "call", <<>>, "")
    /\ UNCHANGED <<boxes, background_drawn, args, result>>

\* Lines 68-69.
BoxBackground ==
    /\ Running("draw_box", "background")
    /\ IF has_background(boxes[Top.box])
       THEN Apply(draw_background(Now, Top.box, TRUE, "draw_box"))
       ELSE UNCHANGED <<ctx, background_drawn>>
    /\ frames' = Goto("marker", 1)
    /\ UNCHANGED <<boxes, calls, args, result>>

\* Lines 71-73.
BoxMarker ==
    /\ Running("draw_box", "marker")
    /\ LET marker_box == boxes[Top.box].outside_list_marker
       IN IF marker_box # NoBox
          THEN /\ frames' = Append(Goto("content", 1),
                                   Frame("draw_box", marker_box, "background", 1))
               /\ ctx' = Emit(ctx, DrawBoxWho(marker_box), 66, "call", <<>>, "")
          ELSE /\ frames' = Goto("content", 1)
               /\ UNCHANGED ctx
    /\ UNCHANGED <<boxes, background_drawn, calls, args, result>>

\* Lines 75-77.
BoxText ==
    /\ Running("draw_box", "content")
    /\ boxes[Top.box].is_text
    /\ ctx' = Emit(draw_text(ctx, Top.box, "draw_box"), DrawBoxWho(Top.box),
                   77, "return", <<>>, "")
    /\ frames' = Pop
    /\ UNCHANGED <<boxes, background_drawn, calls, args, result>>

\* A faulty variant: the border is drawn before the children.
BoxReplaced_borderfirst ==
    /\ Running("draw_box", "content")
    /\ ~boxes[Top.box].is_text
    /\ IF boxes[Top.box].is_replaced
       THEN ctx' = draw_border(draw_replacedbox(ctx, Top.box, "draw_box"),
                               Top.box, "draw_box")
       ELSE ctx' = draw_border(ctx, Top.box, "draw_box")
    /\ frames' = Goto("children", 1)
    /\ UNCHANGED <<boxes, background_drawn, calls, args, result>>

\* Lines 79-80.
BoxReplaced ==
    /\ Running("draw_box", "content")
    /\ ~boxes[Top.box].is_text
    /\ IF boxes[Top.box].is_replaced
       THEN ctx' = draw_replacedbox(ctx, Top.box, "draw_box")
       ELSE UNCHANGED ctx
    /\ frames' = Goto("children", 1)
    /\ UNCHANGED <<boxes, background_drawn, calls, args, result>>

\* Lines 82-84: one iteration of the loop over the children.
BoxChildren ==
    /\ Running("draw_box", "children")
    /\ LET box == boxes[Top.box]
           i == Top.i
       IN IF box.is_parent /\ i <= Len(box.children)
          THEN /\ frames' = Append(Goto("children", i + 1),
                                   Frame("draw_box", box.children[i],
                                         "background", 1))
               /\ ctx' = Emit(ctx, DrawBoxWho(box.children[i]), 66, "call",
                              <<>>, "")
          ELSE /\ frames' = Goto("border", 1)
               /\ UNCHANGED ctx
    /\ UNCHANGED <<boxes, background_drawn, calls, args, result>>

\* Line 86.
BoxBorder ==
    /\ Running("draw_box", "border")
    /\ ctx' = Emit(draw_border(ctx, Top.box, "draw_box"), DrawBoxWho(Top.box),
                   86, "return", <<>>, "")
    /\ frames' = Pop
    /\ UNCHANGED <<boxes, background_drawn, calls, args, result>>

Next ==
    \/ CallDrawPageBackground
    \/ PageBackgroundPage
    \/ PageBackgroundRoot
    \/ PageBackgroundChild
    \/ CallDrawBox
    \/ BoxBackground
    \/ BoxMarker
    \/ BoxText
    \/ BoxReplaced
    \/ BoxChildren
    \/ BoxBorder

Spec == Init /\ [][Next]_vars


(***************************************************************************)
(* Reading the log.                                                        *)
(***************************************************************************)

Ops == ctx.ops

\* A drawing operation: anything the context received (the call and return
\* entries only mark where a function was entered and left).
IsDrawing(e) == e.op \notin {"call", "return"}

IsBackgroundOp(e, b) == e.f = "draw_background" /\ e.box = b /\ IsDrawing(e)

IsCall(e, f, b) == e.op = "call" /\ e.f = f /\ e.box = b

Least(S) == CHOOSE x \in S : \A y \in S : x <= y

\* No call is running.  The log only grows, so what it says of a finished
\* call is read once the call has returned.
Returned == frames = <<>>

(***************************************************************************)
(* C1.  A box's background is painted at most once: a second call of       *)
(* draw_background on the same box emits no drawing operation, so that in  *)
(* a page render (draw_page_background, then draw_box on the root) every   *)
(* box, the root and a body child painted by the page rule included, has   *)
(* its background operations emitted by one call only.                     *)
(***************************************************************************)
C1_BackgroundPaintedOnce ==
    Returned => \A b \in BoxIds :
        LET bg_calls == {j \in DOMAIN Ops : IsCall(Ops[j], "draw_background", b)}
            later == IF bg_calls = {} THEN {} ELSE bg_calls \ {Least(bg_calls)}
        IN /\ later # {} =>
                \A i \in Least(later)..Len(Ops) : ~IsBackgroundOp(Ops[i], b)
           /\ Cardinality({i \in DOMAIN Ops :
                              IsBackgroundOp(Ops[i], b) /\ Ops[i].op = "save"}) <= 1

\* A body child painted by draw_page_background is visited again by draw_box.
C1_Witness ==
    /\ calls = <<"draw_page_background", "draw_box">>
    /\ frames = <<>>
    /\ \E b \in BoxIds \ {PageBox, boxes[PageBox].root_box} :
        /\ \E i \in DOMAIN Ops :
              IsBackgroundOp(Ops[i], b) /\ Ops[i].caller = "draw_page_background"
        /\ \E i \in DOMAIN Ops :
              IsCall(Ops[i], "draw_background", b) /\ Ops[i].caller = "draw_box"

(***************************************************************************)
(* C3.  In draw_page_background, when the root has no background and its   *)
(* tag is "html", only the first child whose tag is "body" has its         *)
(* background painted: no background operation is emitted for a second or  *)
(* later body child during that call.                                      *)
(***************************************************************************)
C3_OnlyFirstBody ==
    LET root == boxes[boxes[PageBox].root_box]
        bodies == {n \in DOMAIN root.children :
                      Lower(boxes[root.children[n]].tag) = "body"}
    IN \A i \in DOMAIN Ops :
          (/\ Ops[i].caller = "draw_page_background"
           /\ IsDrawing(Ops[i])
           /\ Ops[i].f = "draw_background"
           /\ Ops[i].box \notin {PageBox, boxes[PageBox].root_box})
          => Ops[i].box = root.children[Least(bodies)]

(***************************************************************************)
(* C4.  draw_page_background paints the page box's background first, then  *)
(* the root's background if the root has one (and then no child's),        *)
(* otherwise the body child's if the root's tag is "html", otherwise       *)
(* nothing more; none of these paints installs the border-box clip.        *)
(***************************************************************************)
C4_PageBackground ==
    LET root_id == boxes[PageBox].root_box
        root == boxes[root_id]
        PageOp(i) == /\ Ops[i].caller = "draw_page_background"
                     /\ Ops[i].f = "draw_background"
                     /\ IsDrawing(Ops[i])
        page_ops == {i \in DOMAIN Ops : PageOp(i)}
        Painted(b) == \E i \in page_ops : Ops[i].box = b
        bodies == {n \in DOMAIN root.children :
                      Lower(boxes[root.children[n]].tag) = "body"}
    IN Returned =>
       /\ \A i \in page_ops :
            /\ Ops[i].line \notin {146, 147}
            /\ Ops[i].box = PageBox =>
                  \A j \in page_ops : Ops[j].box # PageBox => i < j
            /\ has_background(root) => Ops[i].box \in {PageBox, root_id}
            /\ (~has_background(root) /\ Lower(root.tag) # "html") =>
                  Ops[i].box = PageBox
            /\ (~has_background(root) /\ Lower(root.tag) = "html") =>
                  \/ Ops[i].box = PageBox
                  \/ \E n \in bodies : Ops[i].box = root.children[n]
       /\ (calls # <<>> /\ calls[1] = "draw_page_background") =>
            /\ has_background(boxes[PageBox]) => Painted(PageBox)
            /\ has_background(root) => Painted(root_id)
            /\ (~has_background(root) /\ Lower(root.tag) = "html"
                   /\ bodies # {}
                   /\ has_background(boxes[root.children[Least(bodies)]])) =>
                  Painted(root.children[Least(bodies)])

\* The page, and then a body child in place of the root, have been painted.
C4_Witness ==
    /\ calls = <<"draw_page_background">>
    /\ frames = <<>>
    /\ \E i, j \in DOMAIN Ops :
          /\ i < j
          /\ IsBackgroundOp(Ops[i], PageBox)
          /\ Ops[j].f = "draw_background" /\ Ops[j].op = "paint"
          /\ Ops[j].box \notin {PageBox, boxes[PageBox].root_box}

(***************************************************************************)
(* C5.  The graphics state is strictly scoped: every save is matched by a  *)
(* restore on every exit path of the call that saved, so between any two   *)
(* paint calls of the traversal the save stack is empty and the clip, the  *)
(* transform and the dash pattern are those the top-level call was given.  *)
(***************************************************************************)
C5_StateScoped ==
    /\ ctx.stack = <<>>
    /\ ctx.gs.clip = InitialGs.clip
    /\ ctx.gs.traps = InitialGs.traps
    /\ ctx.gs.tx = InitialGs.tx /\ ctx.gs.ty = InitialGs.ty
    /\ ctx.gs.scale = InitialGs.scale
    /\ ctx.gs.dash = InitialGs.dash
    /\ Returned =>
          Cardinality({i \in DOMAIN Ops : Ops[i].op = "save"})
              = Cardinality({i \in DOMAIN Ops : Ops[i].op = "restore"})

\* A whole tree has been painted, with a background that returned early
\* (no image, or no surface), a dashed border side and a replaced box.
C5_Witness ==
    /\ frames = <<>>
    /\ \E b \in BoxIds :
          /\ boxes[b].style.background_image # "none"
          /\ get_image_surface_from_uri(boxes[b].style.background_image).is_none
          /\ \E i \in DOMAIN Ops : IsBackgroundOp(Ops[i], b)
    /\ \E i \in DOMAIN Ops : Ops[i].op = "set_dash"
    /\ \E i \in DOMAIN Ops : Ops[i].op = "scale"
    /\ \E i \in DOMAIN Ops : Ops[i].f = "draw_text" /\ Ops[i].op = "stroke"


(***************************************************************************)
(* C2.  draw_box emits, for every box variant: the box's own background,   *)
(* then the whole painting of its outside list marker, then the variant's  *)
(* content (text; replaced content, then the children in order), then the  *)
(* box's own border.  Read on every invocation of draw_box in the log:     *)
(* from its call entry to its return entry, the box's own entries and the  *)
(* call and return entries of its marker and children come in that order.  *)
(***************************************************************************)
Kids(b) ==
    {boxes[b].children[n] : n \in DOMAIN boxes[b].children}
        \cup (IF boxes[b].outside_list_marker = NoBox THEN {}
              ELSE {boxes[b].outside_list_marker})

\* The index of the return entry of the draw_box call entered at entry i,
\* or one past the log while the call is running.
ReturnOf(i) ==
    LET R == {j \in (i + 1)..Len(Ops) :
                 /\ Ops[j].f = "draw_box" /\ Ops[j].op = "return"
                 /\ Ops[j].box = Ops[i].box}
    IN IF R = {} THEN Len(Ops) + 1 ELSE Least(R)

Stage(e, b) ==
    IF e.box = b
    THEN CASE e.f = "draw_background" -> 10
           [] e.f \in {"draw_text", "draw_replacedbox"} -> 30
           [] OTHER -> 90
    ELSE IF e.box = boxes[b].outside_list_marker THEN 20
    ELSE 40 + (CHOOSE n \in DOMAIN boxes[b].children :
                  boxes[b].children[n] = e.box)

\* The entries of the invocation of draw_box(b) entered at i that are b's
\* own or enter or leave one of its kids.
Steps(i, b) ==
    LET Own(e) == \/ e.box = b /\ e.f # "draw_box"
                  \/ e.f = "draw_box" /\ e.box \in Kids(b)
    IN SelectSeq(SubSeq(Ops, i + 1, ReturnOf(i) - 1), Own)

InOrder(i, b) ==
    LET steps == Steps(i, b)
    IN \A k \in 1..(Len(steps) - 1) : Stage(steps[k], b) <= Stage(steps[k + 1], b)

BorderLast(i, b) ==
    LET last == Ops[ReturnOf(i) - 1]
    IN /\ last.box = b /\ last.f \in {"draw_border", "draw_border_side"}
       /\ \E k \in (i + 1)..(ReturnOf(i) - 1) : IsCall(Ops[k], "draw_border", b)

NoBorder(i, b) ==
    /\ Ops[ReturnOf(i) - 1].box = b /\ Ops[ReturnOf(i) - 1].f = "draw_text"
    /\ \A k \in (i + 1)..(ReturnOf(i) - 1) :
          ~(Ops[k].box = b /\ Ops[k].f \in {"draw_border", "draw_border_side"})

DrawBoxCalls == {i \in DOMAIN Ops : Ops[i].f = "draw_box" /\ Ops[i].op = "call"}

\* The claim as stated: the border is drawn, last, for every variant.
C2_BorderAlwaysLast ==
    Returned => \A i \in DrawBoxCalls :
        InOrder(i, Ops[i].box) /\ BorderLast(i, Ops[i].box)

\* The claim as amended: the order holds for every variant; draw_border is
\* called, last, for every box but a TextBox, for which draw_box returns
\* right after draw_text and never calls draw_border.
C2_OrderExceptTextBorder ==
    Returned => \A i \in DrawBoxCalls :
        /\ InOrder(i, Ops[i].box)
        /\ IF boxes[Ops[i].box].is_text
           THEN NoBorder(i, Ops[i].box)
           ELSE BorderLast(i, Ops[i].box)

\* A box with a background, a marker, children and a border has been drawn,
\* and so has a text box.
C2_Witness ==
    /\ Returned
    /\ \E i \in DrawBoxCalls :
          /\ boxes[Ops[i].box].outside_list_marker # NoBox
          /\ boxes[Ops[i].box].children # <<>>
          /\ \E k \in 1..Len(Steps(i, Ops[i].box)) :
                Steps(i, Ops[i].box)[k].op = "paint"
          /\ \E k \in 1..Len(Steps(i, Ops[i].box)) :
                Steps(i, Ops[i].box)[k].op = "stroke"
    /\ \E i \in DrawBoxCalls :
          /\ boxes[Ops[i].box].is_text
          /\ \E k \in 1..Len(Steps(i, Ops[i].box)) :
                Steps(i, Ops[i].box)[k].op = "show_line"

(***************************************************************************)
(* C6.  Image anomalies are absorbed locally: for a box whose background   *)
(* image has a MIME type outside the supported ones (the loader returns no *)
(* surface), draw_background paints the background colour when its alpha   *)
(* is > 0, emits no pattern fill and no image clip, returns with the state *)
(* restored, and draw_box goes on with the box's marker, children, border  *)
(* and the boxes that follow it.                                           *)
(***************************************************************************)
Unsupported(b) ==
    /\ boxes[b].style.background_image # "none"
    /\ Resources[boxes[b].style.background_image].mime_type
          \notin SUPPORTED_IMAGES

\* The kids of b and the children of b's parent that come after b.
Following(b) ==
    Kids(b) \cup
    {x \in BoxIds : \E p \in BoxIds : \E m, n \in DOMAIN boxes[p].children :
        m < n /\ boxes[p].children[m] = b /\ boxes[p].children[n] = x}

C6_ImageAnomalyAbsorbed ==
    Returned => \A b \in BoxIds : Unsupported(b) =>
        LET own == {i \in DOMAIN Ops : IsBackgroundOp(Ops[i], b)}
            color == boxes[b].style.background_color
        IN /\ \A i \in own :
                /\ Ops[i].line \notin {178, 198, 199, 203, 204}
                /\ Ops[i].op # "set_source"
           /\ background_drawn[b] =>
                /\ own # {}
                /\ Ops[Least(own)].op = "save"
                /\ \A i \in own : Ops[i].op = "restore" <=> \A j \in own : j <= i
                /\ color.alpha > 0 <=>
                      \E i \in own :
                          /\ Ops[i].op = "set_source_colorvalue"
                          /\ Ops[i].obj = color.name
                          /\ Ops[i + 1].op = "paint"
           /\ \A i \in DOMAIN Ops :
                (IsCall(Ops[i], "draw_background", b) /\ Ops[i].caller = "draw_box")
                => /\ \A x \in Following(b) :
                        \E k \in (i + 1)..Len(Ops) : IsCall(Ops[k], "draw_box", x)
                   /\ \E k \in (i + 1)..Len(Ops) : IsCall(Ops[k], "draw_border", b)

\* draw_box painted a box with a coloured background and an unsupported
\* image, and returned.
C6_Witness ==
    /\ Returned
    /\ \E b \in BoxIds :
          /\ Unsupported(b)
          /\ boxes[b].style.background_color.alpha > 0
          /\ \E i \in DOMAIN Ops :
                IsBackgroundOp(Ops[i], b) /\ Ops[i].caller = "draw_box"
                    /\ Ops[i].op = "paint"

(***************************************************************************)
(* C8.  Repeat policy of draw_background, for a decodable image: "repeat"  *)
(* adds no clip before the pattern fill; "no-repeat" adds a clip rectangle *)
(* at the translated origin (0, 0) of the image's width and height;        *)
(* "repeat-x" limits only the vertical axis to [0, image height] and       *)
(* "repeat-y" only the horizontal axis to [0, image width], the other axis *)
(* keeping the extents of the clip already active.                         *)
(***************************************************************************)
RECURSIVE SumArg(_, _)
SumArg(S, k) ==
    IF S = {} THEN 0
    ELSE LET j == CHOOSE x \in S : TRUE
         IN Ops[j].args[k] + SumArg(S \ {j}, k)

\* The translation in effect at entry i of draw_background.
Shift(i, k) ==
    SumArg({j \in 1..(i - 1) :
               IsBackgroundOp(Ops[j], Ops[i].box) /\ Ops[j].op = "translate"}, k)

BorderBox(box) ==
    <<border_box_x(box), border_box_y(box),
      border_box_x(box) + border_width(box),
      border_box_y(box) + border_height(box)>>

\* The clip, in device coordinates, in effect before the image clip.
ActiveClip(i) ==
    IF \E j \in 1..(i - 1) : IsBackgroundOp(Ops[j], Ops[i].box) /\ Ops[j].line = 146
    THEN Intersect(Viewport, BorderBox(boxes[Ops[i].box]))
    ELSE Viewport

\* The rectangle of entry i, in device coordinates.
DeviceRect(i) ==
    <<Ops[i].args[1] + Shift(i, 1), Ops[i].args[2] + Shift(i, 2),
      Ops[i].args[1] + Ops[i].args[3] + Shift(i, 1),
      Ops[i].args[2] + Ops[i].args[4] + Shift(i, 2)>>

HasArea(r) == r[3] > r[1] /\ r[4] > r[2]

Decodable(b) ==
    /\ boxes[b].style.background_image # "none"
    /\ Resources[boxes[b].style.background_image].mime_type \in SUPPORTED_IMAGES

RepeatPolicy(b) ==
    LET own == {i \in DOMAIN Ops : IsBackgroundOp(Ops[i], b)}
        rects == {i \in own : Ops[i].line = 198}
        fills == {i \in own : Ops[i].op = "set_source"}
        image == Resources[boxes[b].style.background_image]
        repeat == boxes[b].style.background_repeat
    IN own # {} =>
        /\ Cardinality(fills) = 1
        /\ \A i \in fills :
              /\ Ops[i].obj = boxes[b].style.background_image
              /\ Ops[i + 1].op = "paint"
        /\ repeat = "repeat" <=> rects = {}
        /\ Cardinality(rects) <= 1
        /\ \A i \in rects :
              /\ Ops[i + 1].op = "clip" /\ Ops[i + 2].op = "set_source"
              /\ IF repeat \in {"no-repeat", "repeat-y"}
                 THEN Ops[i].args[1] = 0 /\ Ops[i].args[3] = image.width
                 ELSE /\ DeviceRect(i)[1] = ActiveClip(i)[1]
                      /\ DeviceRect(i)[3] = ActiveClip(i)[3]
              /\ IF repeat \in {"no-repeat", "repeat-x"}
                 THEN Ops[i].args[2] = 0 /\ Ops[i].args[4] = image.height
                 ELSE /\ DeviceRect(i)[2] = ActiveClip(i)[2]
                      /\ DeviceRect(i)[4] = ActiveClip(i)[4]

\* The claim as stated: with "no-repeat", exactly one image instance is
\* visible, i.e. the image clip leaves a visible area.
C8_OneInstanceVisible ==
    Returned => \A b \in BoxIds : Decodable(b) =>
        /\ RepeatPolicy(b)
        /\ \A i \in DOMAIN Ops :
              (IsBackgroundOp(Ops[i], b) /\ Ops[i].line = 198
                  /\ boxes[b].style.background_repeat = "no-repeat")
              => HasArea(Intersect(ActiveClip(i), DeviceRect(i)))

\* The claim as amended: with "no-repeat" the image clip is the tile at the
\* translated origin, so at most one image instance is visible; none is when
\* that tile lies outside the clip already active.
C8_RepeatPolicy ==
    Returned => \A b \in BoxIds : Decodable(b) => RepeatPolicy(b)

\* A "repeat-x" and a "no-repeat" image: painted by draw_box, inside the
\* border-box clip.
C8_Witness ==
    /\ Returned
    /\ \E i \in DOMAIN Ops :
          /\ Ops[i].line = 198 /\ Ops[i].caller = "draw_box"
          /\ boxes[Ops[i].box].style.background_repeat \in {"repeat-x", "no-repeat"}
          /\ ActiveClip(i) # Viewport
          /\ HasArea(Intersect(ActiveClip(i), DeviceRect(i)))

(***************************************************************************)
(* C10.  For a "fixed" background the width and height given to the        *)
(* position algorithm are the extents of the clip active before the box's  *)
(* own border-box clip, and the origin is not translated to the box; and   *)
(* whenever the traversal is about to enter draw_background, no clip,      *)
(* translation or scale of an earlier paint step is active, so that those  *)
(* extents are the ones the top-level call was given (the viewport).       *)
(***************************************************************************)
C10_FixedUsesViewport ==
    /\ (frames # <<>> /\ Top.pc \in {"page", "root", "children", "background"}) =>
          /\ ctx.stack = <<>>
          /\ ctx.gs.clip = Viewport
          /\ ctx.gs.tx = 0 /\ ctx.gs.ty = 0
          /\ ctx.gs.scale = <<1, 1, 1, 1>>
    /\ Returned => \A i \in DOMAIN Ops :
          (/\ Ops[i].f = "draw_background" /\ Ops[i].line = 178
           /\ boxes[Ops[i].box].style.background_attachment = "fixed")
          => LET style == boxes[Ops[i].box].style
                 image == Resources[style.background_image]
             IN /\ Ops[i].args = absolute_background_position(
                        style.background_position,
                        <<Viewport[3] - Viewport[1], Viewport[4] - Viewport[2]>>,
                        <<image.width, image.height>>)
                /\ \A j \in DOMAIN Ops :
                      ~(IsBackgroundOp(Ops[j], Ops[i].box) /\ Ops[j].line = 157)

\* A fixed image painted by draw_box, after the border-box clip, once other
\* boxes have been painted.
C10_Witness ==
    /\ Returned
    /\ \E i \in DOMAIN Ops :
          /\ Ops[i].f = "draw_background" /\ Ops[i].line = 178
          /\ boxes[Ops[i].box].style.background_attachment = "fixed"
          /\ \E j \in 1..(i - 1) :
                IsBackgroundOp(Ops[j], Ops[i].box) /\ Ops[j].line = 146
          /\ \E j \in 1..(i - 1) :
                IsDrawing(Ops[j]) /\ Ops[j].box # Ops[i].box


(***************************************************************************)
(* absolute_background_position on its own.                                *)
(***************************************************************************)

HorizontalKeywords == {"left", "center", "right"}

VerticalKeywords == {"top", "center", "bottom"}

Numeric == {Percentage(25), Percentage(100), Length(10), Length(-4)}

\* The values of background-position the CSS 2.1 grammar allows: one value;
\* two keywords, one per axis, in either order; or, when a value is not a
\* keyword, the horizontal one first.
PositionValues ==
    {<<v>> : v \in Numeric \cup {Keyword(k) :
                k \in HorizontalKeywords \cup VerticalKeywords}}
    \cup {<<Keyword(h), Keyword(v)>> :
            h \in HorizontalKeywords, v \in VerticalKeywords}
    \cup {<<Keyword(v), Keyword(h)>> :
            h \in HorizontalKeywords, v \in VerticalKeywords}
    \cup {<<x, y>> : x \in Numeric,
                     y \in Numeric \cup {Keyword(v) : v \in VerticalKeywords}}
    \cup {<<Keyword(h), y>> : h \in HorizontalKeywords, y \in Numeric}

PositionInputs ==
    [css_values : PositionValues,
     bg_dimensions : {<<100, 100>>, <<200, 120>>},
     image_dimensions : {<<20, 20>>, <<40, 20>>}]

InitPos ==
    /\ boxes = <<>>
    /\ background_drawn = <<>>
    /\ ctx = InitialCtx
    /\ frames = <<>>
    /\ calls = <<>>
    /\ args \in PositionInputs
    /\ result = <<>>

ComputePosition ==
    /\ result = <<>>
    /\ result' = absolute_background_position(
                     args.css_values, args.bg_dimensions, args.image_dimensions)
    /\ UNCHANGED <<boxes, background_drawn, ctx, frames, calls, args>>

NextPos == ComputePosition

SpecPos == InitPos /\ [][NextPos]_vars

(***************************************************************************)
(* C7.  absolute_background_position returns (horizontal, vertical): a     *)
(* single value gets "center" as second value; the pair is swapped exactly *)
(* when value[1] is left/right or value[0] is top/bottom; on each axis a   *)
(* keyword (top/left = 0, center = 50, bottom/right = 100) or a percentage *)
(* gives (container - image) * pct / 100, and any other value is the       *)
(* offset itself.  ("center", "top") on (100, 100) with an image (20, 20)  *)
(* gives (40, 0), a single "10px" gives (10, 40), and two keywords, one    *)
(* per axis, give the same result in either order.                         *)
(***************************************************************************)
PercentOf(value) ==
    CASE value = Keyword("top") \/ value = Keyword("left") -> 0
      [] value = Keyword("center") -> 50
      [] value = Keyword("bottom") \/ value = Keyword("right") -> 100
      [] OTHER -> value.value

ExpectedOffset(value, container, image) ==
    IF value.kind = "length" THEN value.value
    ELSE ((container - image) * PercentOf(value)) \div 100

ExpectedPosition(in) ==
    LET first == in.css_values[1]
        second == IF Len(in.css_values) = 1 THEN Keyword("center")
                  ELSE in.css_values[2]
        swap == second \in {Keyword("left"), Keyword("right")}
                    \/ first \in {Keyword("top"), Keyword("bottom")}
        horizontal == IF swap THEN second ELSE first
        vertical == IF swap THEN first ELSE second
    IN <<ExpectedOffset(horizontal, in.bg_dimensions[1], in.image_dimensions[1]),
         ExpectedOffset(vertical, in.bg_dimensions[2], in.image_dimensions[2])>>

C7_Position ==
    result # <<>> =>
        /\ result = ExpectedPosition(args)
        /\ (args.css_values = <<Keyword("center"), Keyword("top")>>
               /\ args.bg_dimensions = <<100, 100>>
               /\ args.image_dimensions = <<20, 20>>) => result = <<40, 0>>
        /\ (args.css_values = <<Length(10)>>
               /\ args.bg_dimensions = <<100, 100>>
               /\ args.image_dimensions = <<20, 20>>) => result = <<10, 40>>
        /\ (Len(args.css_values) = 2
               /\ args.css_values[1].kind = "keyword"
               /\ args.css_values[2].kind = "keyword") =>
              result = absolute_background_position(
                           <<args.css_values[2], args.css_values[1]>>,
                           args.bg_dimensions, args.image_dimensions)

\* ("bottom", "left") has been resolved on a container that is not square.
C7_Witness ==
    /\ result # <<>>
    /\ args.css_values = <<Keyword("bottom"), Keyword("left")>>
    /\ args.bg_dimensions = <<200, 120>>
    /\ result = <<0, 100>>

(***************************************************************************)
(* draw_border on its own: one box, every combination of the four sides.   *)
(***************************************************************************)

Side(width, color, style) == [width |-> width, color |-> color, style |-> style]

SideConfigs ==
    {Side(0, Color("navy", 1), "solid"), Side(0, Color("navy", 1), "dashed"),
     Side(4, Transparent, "solid")}
    \cup {Side(w, Color("navy", 1), st) :
            w \in {4}, st \in {"solid", "double", "dotted", "dashed"}}

BorderedBox(top, right, bottom, left) ==
    [BaseBox EXCEPT
        !.position_x = 20, !.position_y = 8,
        !.margin_left = 4, !.margin_top = 4,
        !.width = 80, !.height = 40,
        !.padding_left = 4, !.padding_right = 4,
        !.border_top_width = top.width, !.border_right_width = right.width * 2,
        !.border_bottom_width = bottom.width,
        !.border_left_width = left.width * 3,
        !.style = [BaseStyle EXCEPT
            !.border_top_color = top.color, !.border_top_style = top.style,
            !.border_right_color = right.color,
            !.border_right_style = right.style,
            !.border_bottom_color = bottom.color,
            !.border_bottom_style = bottom.style,
            !.border_left_color = left.color,
            !.border_left_style = left.style]]

InitBorder ==
    /\ boxes \in {[id \in {"a"} |-> BorderedBox(top, right, bottom, left)] :
                    top \in SideConfigs, right \in SideConfigs,
                    bottom \in SideConfigs, left \in SideConfigs}
    /\ background_drawn = [id \in {"a"} |-> FALSE]
    /\ ctx = InitialCtx
    /\ frames = <<>>
    /\ calls = <<>>
    /\ args = <<>>
    /\ result = <<>>

\* The caller runs draw_border(context, box).
CallDrawBorder ==
    /\ calls = <<>>
    /\ calls' = <<"draw_border">>
    /\ ctx' = draw_border(ctx, "a", "draw_border")
    /\ UNCHANGED <<boxes, background_drawn, frames, args, result>>

NextBorder == CallDrawBorder

SpecBorder == InitBorder /\ [][NextBorder]_vars

(***************************************************************************)
(* C9.  draw_border emits nothing when the four widths are zero, whatever  *)
(* the colours and styles; otherwise it visits the sides in the order top, *)
(* right, bottom, left, and a side emits operations iff its width is       *)
(* nonzero and its colour's alpha is > 0: inside one save/restore pair,    *)
(* one stroke of the centerline of the side's trapezoid with the side's    *)
(* width and colour, preceded by a clip to the trapezoid iff the style is  *)
(* neither dotted nor dashed, by set_dash([width]) iff dotted and by       *)
(* set_dash([4 * width]) iff dashed.                                       *)
(***************************************************************************)
Greatest(S) == CHOOSE x \in S : \A y \in S : x >= y

SideOps(side) ==
    {i \in DOMAIN Ops : Ops[i].f = "draw_border_side" /\ Ops[i].side = side}

Count(S, op) == Cardinality({i \in S : Ops[i].op = op})

SidePainted(box, n) ==
    LET side == Sides[n]
        own == SideOps(side)
        width == border_side_width(box, side)
        color == border_side_color(box, side)
        style == border_side_style(box, side)
        first == Least(own)
        last == Greatest(own)
    IN /\ own = first..last
       /\ Ops[first].op = "save" /\ Count(own, "save") = 1
       /\ Ops[last].op = "restore" /\ Count(own, "restore") = 1
       /\ Ops[last - 1].op = "stroke" /\ Count(own, "stroke") = 1
       /\ Ops[last - 2].op = "set_line_width" /\ Ops[last - 2].args = <<width>>
       /\ Ops[last - 3].op = "set_source_colorvalue"
       /\ Ops[last - 3].obj = color.name
       /\ Ops[last - 4].op = "middle_line"
       /\ Ops[last - 4].args = get_trapezoids(box)[n]
       /\ Count(own, "middle_line") = 1
       /\ IF style \notin {"dotted", "dashed"}
          THEN /\ Ops[first + 1].op = "trapezoid"
               /\ Ops[first + 1].args = get_trapezoids(box)[n]
               /\ Ops[first + 2].op = "clip"
               /\ last = first + 7
          ELSE /\ Ops[first + 1].op = "set_dash"
               /\ Ops[first + 1].args =
                     IF style = "dotted" THEN <<width>> ELSE <<4 * width>>
               /\ last = first + 6

C9_Border ==
    calls # <<>> =>
        LET box == boxes["a"]
        IN /\ (\A n \in DOMAIN Sides : border_side_width(box, Sides[n]) = 0) =>
                \A i \in DOMAIN Ops : ~IsDrawing(Ops[i])
           /\ \A i \in DOMAIN Ops :
                IsDrawing(Ops[i]) => \E n \in DOMAIN Sides : i \in SideOps(Sides[n])
           /\ \A n \in DOMAIN Sides :
                IF border_side_width(box, Sides[n]) # 0
                      /\ border_side_color(box, Sides[n]).alpha > 0
                THEN /\ SideOps(Sides[n]) # {}
                     /\ SidePainted(box, n)
                     /\ \A m \in 1..(n - 1) : \A i \in SideOps(Sides[m]) :
                           i < Least(SideOps(Sides[n]))
                ELSE SideOps(Sides[n]) = {}

\* A solid, a dotted and a dashed side have been painted, and a side with a
\* transparent colour has been skipped.
C9_Witness ==
    /\ calls # <<>>
    /\ boxes["a"].style.border_top_style = "dotted"
    /\ boxes["a"].style.border_right_color.alpha = 0
    /\ boxes["a"].border_right_width > 0
    /\ boxes["a"].style.border_bottom_style = "solid"
    /\ boxes["a"].style.border_left_style = "dashed"
    /\ Count(DOMAIN Ops, "stroke") = 3
    /\ Count(DOMAIN Ops, "set_dash") = 2
    /\ Count(DOMAIN Ops, "clip") = 1


====
